---------------------------- MODULE Spec2Model ----------------------------
(***************************************************************************)
(* Model of the Second-Brain chat front end.  Three chat components read   *)
(* an assistant response:                                                  *)
(*   "pull"  : app/page.tsx ChatInterface, reads the chunked body of       *)
(*             POST /chat/stream itself;                                   *)
(*   "push"  : components/ChatInterface.tsx ChatInterface, listens on the  *)
(*             /ws/status socket and submits through POST /ingest/web;     *)
(*   "panel" : components/ChatPanel.tsx ChatPanel, awaits lib/api.ts       *)
(*             sendMessage, which drains the streamMessage generator.      *)
(* Text is a sequence of one-character strings, so that splitting,         *)
(* trimming and prefix matching are computed as the code computes them.    *)
(* JavaScript runs a handler to its next await without interruption, so    *)
(* one action is one such run.                                             *)
(*                                                                         *)
(* Spec runs any one of the three components on the response bodies of     *)
(* Streams.  SpecSocket adds the unmount of the push component, SpecHealth *)
(* the health poll of the pull component, SpecSilent a network that stops  *)
(* delivering; SpecLine follows one invocation over every body of up to    *)
(* MaxFrames whole lines.  SpecPanel runs ChatPanel in both its modes      *)
(* (query through sendMessage, insert through saveMemory) and with both    *)
(* its forms (its own, or the ChatInput component); SpecReader adds a      *)
(* consumer of streamMessage that returns early.                           *)
(***************************************************************************)
EXTENDS Naturals, Sequences, FiniteSets

VARIABLES
    transport,   \* which chat component is mounted
    clock,       \* the last value Date.now() returned
    input,       \* useState input
    messages,    \* useState messages
    brainState,  \* useState brainState
    loading,     \* useState loading (ChatPanel)
    mode,        \* useState mode (ChatPanel): "query" or "insert"
    calls,       \* the invocations of the submit handler, in call order
    delivered,   \* number of socket messages handed to ws.onmessage
    wsData,      \* the event.data last handed to ws.onmessage
    socket,      \* the WebSocket of the push component and what was done with it
    health,      \* useState health (app/page.tsx)
    silent       \* TRUE once the network delivers nothing more

vars == <<transport, clock, input, messages, brainState, loading, mode, calls,
          delivered, wsData, socket, health, silent>>

---------------------------------------------------------------------------
(* Bounds *)

MaxCalls == 2
MaxClock == 1
MaxDelivered == 2
MaxFragments == 4
MaxFrames == 3

---------------------------------------------------------------------------
(* String literals of the source *)

STR_Idle == <<"I", "d", "l", "e">>
STR_ThinkingDots == <<"T", "h", "i", "n", "k", "i", "n", "g", ".", ".", ".">>
STR_RespondingDots == <<"R", "e", "s", "p", "o", "n", "d", "i", "n", "g", ".", ".", ".">>
STR_Error == <<"E", "r", "r", "o", "r">>
STR_ConnectionFailed == <<"C", "o", "n", "n", "e", "c", "t", "i", "o", "n", " ", "F", "a", "i", "l", "e", "d", ".">>
STR_FailedToReach == <<"F", "a", "i", "l", "e", "d", " ", "t", "o", " ", "r", "e", "a", "c", "h", " ", "b", "r", "a", "i", "n", ".">>
STR_ErrorColon == <<"E", "r", "r", "o", "r", ":", " ">>
STR_undefined == <<"u", "n", "d", "e", "f", "i", "n", "e", "d">>
\* the text that follows the cross mark of ChatPanel's error message
STR_ErrorProcessing == <<"E", "r", "r", "o", "r", " ", "p", "r", "o", "c", "e", "s", "s", "i", "n", "g", " ", "r", "e", "q", "u", "e", "s", "t", ".">>
STR_SavedExtracted == <<"S", "a", "v", "e", "d", "!", " ", "E", "x", "t", "r", "a", "c", "t", "e", "d", " ">>
STR_entities == <<" ", "e", "n", "t", "i", "t", "i", "e", "s", ".">>
PFX_THINKING == <<"T", "H", "I", "N", "K", "I", "N", "G", ":">>
PFX_TOKEN == <<"T", "O", "K", "E", "N", ":">>
PFX_TOKEN_SP == <<"T", "O", "K", "E", "N", ":", " ">>

---------------------------------------------------------------------------
(* String functions of JavaScript, on sequences of characters *)

WhiteSpace == {" ", "\t", "\r", "\n"}

RECURSIVE TrimStart(_)
TrimStart(s) ==
    IF s # <<>> /\ Head(s) \in WhiteSpace THEN TrimStart(Tail(s)) ELSE s

RECURSIVE TrimEnd(_)
TrimEnd(s) ==
    IF s # <<>> /\ s[Len(s)] \in WhiteSpace
    THEN TrimEnd(SubSeq(s, 1, Len(s) - 1))
    ELSE s

\* String.prototype.trim
Trim(s) == TrimEnd(TrimStart(s))

\* String.prototype.startsWith
StartsWith(s, p) == Len(s) >= Len(p) /\ SubSeq(s, 1, Len(p)) = p

\* String.prototype.substring(n)
Substring(s, n) == SubSeq(s, n + 1, Len(s))

\* String.prototype.replace(p, ""): the first occurrence of p is removed
RECURSIVE ReplaceFirst(_, _)
ReplaceFirst(s, p) ==
    IF StartsWith(s, p) THEN Substring(s, Len(p))
    ELSE IF s = <<>> THEN s
    ELSE <<Head(s)>> \o ReplaceFirst(Tail(s), p)

\* String.prototype.split("\n")
RECURSIVE SplitAcc(_, _)
SplitAcc(s, cur) ==
    IF s = <<>> THEN <<cur>>
    ELSE IF Head(s) = "\n" THEN <<cur>> \o SplitAcc(Tail(s), <<>>)
    ELSE SplitAcc(Tail(s), Append(cur, Head(s)))

Split(s) == SplitAcc(s, <<>>)

\* concatenation of a sequence of strings
RECURSIVE Concat(_)
Concat(ss) == IF ss = <<>> THEN <<>> ELSE Head(ss) \o Concat(Tail(ss))

---------------------------------------------------------------------------
(* What the server and the user may send *)

A1 == <<"T", "H", "I", "N", "K">>
A2 == <<"I", "N", "G", ":", " ", "l", "o", "o">>
A3 == <<"k", "i", "n", "g", "\n", "T", "O", "K", "E", "N", ":", " ", "H", "e", "l">>
A4 == <<"l", "o", "\n", "T", "O", "K", "E", "N", ":", " ", "W", "o", "r", "l", "d", "\n">>
B1 == <<"T", "H", "I", "N", "K", "I", "N", "G", ":", "a", "n", "a", "l", "y", "z", "i", "n", "g", "\n">>
B2 == <<"T", "O", "K", "E", "N", ":", "P", "a", "r", "i", "s", "\n">>
C1a == <<"T", "H", "I", "N", "K", "I", "N", "G", ":", "a", "\n", "T", "O", "K", "E", "N", ":", " ", "b", " ", "\n">>
C2a == <<"T", "H", "I", "N", "K", "I", "N", "G", ":", "c", "\n">>
C3a == <<"T", "O", "K", "E", "N", ":", "\n">>
C4a == <<"x", "\n", "\n", "T", "O", "K", "E", "N", ":", "d", "\n">>

\* A response body is a sequence of fragments; a read returns one or more
\* consecutive fragments as one chunk.  All bodies are well formed
\* (newline-terminated lines).  StreamA can be cut inside a line, the
\* others only at line ends.
StreamA == <<A1, A2, A3, A4>>
StreamB == <<B1, B2>>
StreamC == <<C1a, C3a \o C4a \o C2a>>
Streams == {StreamA, StreamB, StreamC}

Inputs == {<<>>, <<" ">>, <<"h", "i">>}

\* Frames for bodies made of whole lines: a token, an unknown line followed
\* by a blank one, and a token line that begins with a space
D1 == <<"T", "O", "K", "E", "N", ":", " ", "b", " ", "\n">>
D2 == <<"x", "\n", "\n">>
D3 == <<" ", "T", "O", "K", "E", "N", ":", " ", "x", "\n">>
LineFrames == {C2a, C3a, D1, D2, D3}

\* every body of one to MaxFrames such frames, one frame a fragment
LineBodies == UNION {[1..n -> LineFrames] : n \in 1..MaxFrames}

\* Date.now(): the clock never runs backwards; it may or may not have moved
\* on since the last reading.
Now(last) == {t \in last..(last + 1) : t <= MaxClock}

\* Date.now().toString(), with the "_ai" suffix of the placeholder or not
Id(t, ai) == [t |-> t, ai |-> ai]

\* An invocation that issues its fetch a second time
NewCall_TwoRequests(text, aiMsgId) ==
    [pc |-> "fetch", text |-> text, aiMsgId |-> aiMsgId, fullResponse |-> <<>>,
     body |-> <<>>, stream |-> <<>>, chunks |-> <<>>, events |-> <<>>,
     requests |-> <<text, text>>, mode |-> "query", reader |-> FALSE, released |-> 0]

\* The local variables of one invocation of a submit handler.  chunks and
\* events record what the invocation has read and how it classified it,
\* requests the user_input of every fetch it has issued.  mode is the
\* ChatPanel mode the handler ran in; reader tells whether streamMessage has
\* obtained the body's reader, released counts its reader.releaseLock() calls.
NewCall(text, aiMsgId) ==
    [pc |-> "fetch", text |-> text, aiMsgId |-> aiMsgId, fullResponse |-> <<>>,
     body |-> <<>>, stream |-> <<>>, chunks |-> <<>>, events |-> <<>>,
     requests |-> <<text>>, mode |-> "query", reader |-> FALSE, released |-> 0]

Thinking(label) == [type |-> "Thinking", payload |-> label]
Token(text) == [type |-> "Token", payload |-> text]

InFlight == {s \in DOMAIN calls : calls[s].pc \in {"fetch", "read", "json"}}

\* The response bodies the server may still send: all responses together
\* hold at most MaxFragments fragments.
RECURSIVE Served(_)
Served(cs) == IF cs = <<>> THEN 0 ELSE Len(Head(cs).body) + Served(Tail(cs))

Bodies == {st \in Streams : Served(calls) + Len(st) <= MaxFragments}

---------------------------------------------------------------------------
(* app/page.tsx: ChatInterface over the pull transport *)

\* line.replace("THINKING:", "").trim()
ThinkingLabel(line) == Trim(ReplaceFirst(line, PFX_THINKING))

\* line.replace("TOKEN:", "")
TokenText(line) == ReplaceFirst(line, PFX_TOKEN)

AppendToken_Assign(fullResponse, token) == token

\* fullResponse += token
AppendToken(fullResponse, token) == fullResponse \o token

\* prev.map(msg => msg.id === aiMsgId ? { ...msg, text: fullResponse } : msg)
SetText(prev, aiMsgId, fullResponse) ==
    [i \in DOMAIN prev |->
        IF prev[i].id = aiMsgId THEN [prev[i] EXCEPT !.text = fullResponse]
        ELSE prev[i]]

\* A loop that takes the empty fragment for a token without text
PullLine_EmptyIsToken(acc, line, aiMsgId) ==
    IF StartsWith(line, PFX_THINKING) THEN
        [acc EXCEPT !.brainState = ThinkingLabel(line),
                    !.events = Append(@, Thinking(ThinkingLabel(line)))]
    ELSE IF line = <<>> \/ StartsWith(line, PFX_TOKEN) THEN
        LET full == AppendToken(acc.fullResponse, TokenText(line)) IN
        [acc EXCEPT !.brainState = STR_RespondingDots,
                    !.fullResponse = full,
                    !.messages = SetText(@, aiMsgId, full),
                    !.events = Append(@, Token(TokenText(line)))]
    ELSE acc

\* A loop that skips a token without text
PullLine_SkipEmpty(acc, line, aiMsgId) ==
    IF line = <<>> THEN acc
    ELSE IF StartsWith(line, PFX_THINKING) THEN
        [acc EXCEPT !.brainState = ThinkingLabel(line),
                    !.events = Append(@, Thinking(ThinkingLabel(line)))]
    ELSE IF StartsWith(line, PFX_TOKEN) /\ TokenText(line) # <<>> THEN
        LET full == AppendToken(acc.fullResponse, TokenText(line)) IN
        [acc EXCEPT !.brainState = STR_RespondingDots,
                    !.fullResponse = full,
                    !.messages = SetText(@, aiMsgId, full),
                    !.events = Append(@, Token(TokenText(line)))]
    ELSE acc

\* The body of the loop over the lines of one chunk.  acc holds brainState,
\* messages, fullResponse and the events classified so far.
PullLine(acc, line, aiMsgId) ==
    IF line = <<>> THEN acc
    ELSE IF StartsWith(line, PFX_THINKING) THEN
        [acc EXCEPT !.brainState = ThinkingLabel(line),
                    !.events = Append(@, Thinking(ThinkingLabel(line)))]
    ELSE IF StartsWith(line, PFX_TOKEN) THEN
        LET full == AppendToken(acc.fullResponse, TokenText(line)) IN
        [acc EXCEPT !.brainState = STR_RespondingDots,
                    !.fullResponse = full,
                    !.messages = SetText(@, aiMsgId, full),
                    !.events = Append(@, Token(TokenText(line)))]
    ELSE acc

RECURSIVE PullLines(_, _, _)
PullLines(acc, lines, aiMsgId) ==
    IF lines = <<>> THEN acc
    ELSE PullLines(PullLine(acc, Head(lines), aiMsgId), Tail(lines), aiMsgId)

\* decoder.decode(value); chunk.split("\n"); for (const line of lines) ...
PullChunk(acc, chunk, aiMsgId) == PullLines(acc, Split(chunk), aiMsgId)

EofBrainState_Error == STR_Error

\* setBrainState after the read loop has seen done
EofBrainState == STR_Idle

\* the catch block's setMessages
PullErrorMessages(prev, t) ==
    Append(prev, [id |-> Id(t, FALSE), sender |-> "ai", text |-> STR_ConnectionFailed])

\* the catch block
PullCatch(s) ==
    \E t \in Now(clock) :
        /\ brainState' = STR_Error
        /\ messages' = PullErrorMessages(messages, t)
        /\ clock' = t
        /\ calls' = [calls EXCEPT ![s].pc = "failed"]
        /\ UNCHANGED <<mode, transport, input, loading, delivered, wsData, socket, health,
                       silent>>

\* onChange={(e) => setInput(e.target.value)}
SetInput ==
    /\ socket.state # "closed"
    /\ Len(calls) < MaxCalls
    /\ \E v \in Inputs \ {input} : input' = v
    /\ UNCHANGED <<mode, transport, clock, messages, brainState, loading, calls, delivered,
                   wsData, socket, health, silent>>

\* sendMessage, up to its await fetch
PullSendMessage ==
    /\ transport = "pull"
    /\ Len(calls) < MaxCalls
    /\ Trim(input) # <<>>
    /\ \E t1 \in Now(clock) : \E t2 \in Now(t1) :
        /\ messages' = messages \o
              <<[id |-> Id(t1, FALSE), sender |-> "user", text |-> input],
                [id |-> Id(t2, TRUE), sender |-> "ai", text |-> <<>>]>>
        /\ clock' = t2
        /\ calls' = Append(calls, NewCall(input, Id(t2, TRUE)))
    /\ input' = <<>>
    /\ brainState' = STR_ThinkingDots
    /\ UNCHANGED <<mode, transport, loading, delivered, wsData, socket, health, silent>>

\* fetch resolves with a body: getReader, and the first reader.read() is awaited
PullFetchResolve ==
    \E s \in DOMAIN calls :
        /\ transport = "pull"
        /\ calls[s].pc = "fetch"
        /\ ~silent
        /\ \E st \in Bodies :
            calls' = [calls EXCEPT ![s].pc = "read", ![s].body = st, ![s].stream = st]
        /\ UNCHANGED <<mode, transport, clock, input, messages, brainState, loading,
                       delivered, wsData, socket, health, silent>>

\* fetch rejects, or resolves without a body ("No stream")
PullFetchFail ==
    \E s \in DOMAIN calls :
        /\ transport = "pull"
        /\ calls[s].pc = "fetch"
        /\ ~silent
        /\ PullCatch(s)

\* reader.read() resolves with a chunk: one turn of the while loop
PullReadChunk ==
    \E s \in DOMAIN calls :
        /\ transport = "pull"
        /\ calls[s].pc = "read"
        /\ ~silent
        /\ \E n \in 1..Len(calls[s].stream) :
            LET chunk == Concat(SubSeq(calls[s].stream, 1, n))
                acc == PullChunk([brainState |-> brainState, messages |-> messages,
                                  fullResponse |-> calls[s].fullResponse,
                                  events |-> calls[s].events],
                                 chunk, calls[s].aiMsgId)
            IN  /\ brainState' = acc.brainState
                /\ messages' = acc.messages
                /\ calls' = [calls EXCEPT ![s].fullResponse = acc.fullResponse,
                                          ![s].events = acc.events,
                                          ![s].chunks = Append(@, chunk),
                                          ![s].stream = SubSeq(@, n + 1, Len(@))]
        /\ UNCHANGED <<mode, transport, clock, input, loading, delivered, wsData, socket,
                       health, silent>>

\* reader.read() resolves with done: break, setBrainState("Idle")
PullReadDone ==
    \E s \in DOMAIN calls :
        /\ transport = "pull"
        /\ calls[s].pc = "read"
        /\ ~silent
        /\ calls[s].stream = <<>>
        /\ brainState' = EofBrainState
        /\ calls' = [calls EXCEPT ![s].pc = "done"]
        /\ UNCHANGED <<mode, transport, clock, input, messages, loading, delivered, wsData,
                       socket, health, silent>>

\* reader.read() rejects
PullReadFail ==
    \E s \in DOMAIN calls :
        /\ transport = "pull"
        /\ calls[s].pc = "read"
        /\ ~silent
        /\ PullCatch(s)

NextPull ==
    \/ PullSendMessage
    \/ PullFetchResolve
    \/ PullFetchFail
    \/ PullReadChunk
    \/ PullReadDone
    \/ PullReadFail

---------------------------------------------------------------------------
(* components/ChatInterface.tsx: ChatInterface over the push transport *)

T_Paris == <<"P", "a", "r", "i", "s">>
T_dbdown == <<"d", "b", " ", "d", "o", "w", "n">>

\* The socket the effect opens at mount: new WebSocket(...), nothing closed or
\* sent yet; the other components have none
MountSocket == [state |-> "open", opened |-> 1, closed |-> 0, sent |-> <<>>]
NoSocket == [state |-> "none", opened |-> 0, closed |-> 0, sent |-> <<>>]

\* What may arrive on the socket.  json = FALSE is a text JSON.parse rejects;
\* a field a message does not carry is undefined: has* is FALSE, and status
\* "" stands for a message without a status.
WsData(status, hasMessage, message, hasResponse, response) ==
    [json |-> TRUE, status |-> status, hasMessage |-> hasMessage, message |-> message,
     hasResponse |-> hasResponse, response |-> response]

SocketMessages ==
    { WsData("THINKING", FALSE, <<>>, FALSE, <<>>),
      WsData("DONE", FALSE, <<>>, TRUE, T_Paris),
      WsData("DONE", FALSE, <<>>, FALSE, <<>>),
      WsData("DONE", FALSE, <<>>, TRUE, <<>>),
      WsData("ERROR", TRUE, T_dbdown, FALSE, <<>>),
      WsData("PING", FALSE, <<>>, FALSE, <<>>),
      WsData("", FALSE, <<>>, FALSE, <<>>),
      [WsData("", FALSE, <<>>, FALSE, <<>>) EXCEPT !.json = FALSE] }

\* if (data.response): undefined and "" are falsy
Truthy(has, str) == has /\ str # <<>>

\* `Error: ${data.message}`
ErrorText(data) ==
    STR_ErrorColon \o (IF data.hasMessage THEN data.message ELSE STR_undefined)

\* A handler whose DONE branch leaves the state as it was
WsBrainState_NoDone(data, prev) ==
    IF ~data.json THEN prev
    ELSE IF data.status = "THINKING" THEN STR_ThinkingDots
    ELSE IF data.status = "ERROR" THEN STR_Error
    ELSE prev

\* A handler that reports a text it cannot parse as the session's error
WsBrainState_ErrorOnBadJson(data, prev) ==
    IF ~data.json THEN STR_Error
    ELSE IF data.status = "THINKING" THEN STR_ThinkingDots
    ELSE IF data.status = "DONE" THEN STR_Idle
    ELSE IF data.status = "ERROR" THEN STR_Error
    ELSE prev

\* brainState after ws.onmessage(data)
WsBrainState(data, prev) ==
    IF ~data.json THEN prev
    ELSE IF data.status = "THINKING" THEN STR_ThinkingDots
    ELSE IF data.status = "DONE" THEN STR_Idle
    ELSE IF data.status = "ERROR" THEN STR_Error
    ELSE prev

\* messages after ws.onmessage(data), t being Date.now()
WsMessages(data, prev, t) ==
    IF ~data.json THEN prev
    ELSE IF data.status = "DONE" /\ Truthy(data.hasResponse, data.response) THEN
        Append(prev, [id |-> Id(t, FALSE), sender |-> "ai", text |-> data.response])
    ELSE IF data.status = "ERROR" THEN
        Append(prev, [id |-> Id(t, FALSE), sender |-> "ai", text |-> ErrorText(data)])
    ELSE prev

\* ws.onmessage
WsOnMessage ==
    /\ transport = "push"
    /\ socket.state = "open"
    /\ ~silent
    /\ delivered < MaxDelivered
    /\ delivered' = delivered + 1
    /\ \E data \in SocketMessages : \E t \in Now(clock) :
        /\ brainState' = WsBrainState(data, brainState)
        /\ messages' = WsMessages(data, messages, t)
        /\ clock' = IF messages' = messages THEN clock ELSE t
        /\ wsData' = <<data>>
    /\ UNCHANGED <<mode, transport, input, loading, calls, socket, health, silent>>

\* A handler that also writes its text to the socket
PushSendSocket_Send(sock, text) == [sock EXCEPT !.sent = Append(@, text)]

\* The socket after sendMessage(text): the handler posts to /ingest/web and
\* never touches the socket
PushSendSocket(sock, text) == sock

\* sendMessage, up to its await fetch
PushSendMessage ==
    /\ transport = "push"
    /\ socket.state = "open"
    /\ Len(calls) < MaxCalls
    /\ Trim(input) # <<>>
    /\ \E t \in Now(clock) :
        /\ messages' = Append(messages, [id |-> Id(t, FALSE), sender |-> "user", text |-> input])
        /\ clock' = t
    /\ calls' = Append(calls, NewCall(input, Id(0, FALSE)))
    /\ socket' = PushSendSocket(socket, input)
    /\ input' = <<>>
    /\ UNCHANGED <<mode, transport, brainState, loading, delivered, wsData, health, silent>>

\* fetch resolves: nothing follows the await
PushFetchResolve ==
    \E s \in DOMAIN calls :
        /\ transport = "push"
        /\ socket.state = "open"
        /\ calls[s].pc = "fetch"
        /\ ~silent
        /\ calls' = [calls EXCEPT ![s].pc = "done"]
        /\ UNCHANGED <<mode, transport, clock, input, messages, brainState, loading,
                       delivered, wsData, socket, health, silent>>

\* the catch block's setMessages
PushErrorMessages(prev, t) ==
    Append(prev, [id |-> Id(t, FALSE), sender |-> "ai", text |-> STR_FailedToReach])

\* fetch rejects: the catch block
PushFetchFail ==
    \E s \in DOMAIN calls :
        /\ transport = "push"
        /\ socket.state = "open"
        /\ calls[s].pc = "fetch"
        /\ ~silent
        /\ \E t \in Now(clock) :
            /\ messages' = PushErrorMessages(messages, t)
            /\ clock' = t
        /\ calls' = [calls EXCEPT ![s].pc = "failed"]
        /\ UNCHANGED <<mode, transport, input, brainState, loading, delivered, wsData,
                       socket, health, silent>>

\* the effect's cleanup at unmount: ws.close().  The component and its state
\* are gone afterwards, so none of its handlers acts again.
Unmount ==
    /\ transport = "push"
    /\ socket.state = "open"
    /\ socket' = [socket EXCEPT !.state = "closed", !.closed = @ + 1]
    /\ UNCHANGED <<mode, transport, clock, input, messages, brainState, loading, calls,
                   delivered, wsData, health, silent>>

NextPush ==
    \/ WsOnMessage
    \/ PushSendMessage
    \/ PushFetchResolve
    \/ PushFetchFail

---------------------------------------------------------------------------
(* lib/api.ts streamMessage and sendMessage, awaited by                    *)
(* components/ChatPanel.tsx handleSubmit in query mode                     *)

\* streamMessage: for (const line of lines) if (line.trim()) yield line.trim()
RECURSIVE ApiYield(_)
ApiYield(lines) ==
    IF lines = <<>> THEN <<>>
    ELSE IF Trim(Head(lines)) # <<>> THEN <<Trim(Head(lines))>> \o ApiYield(Tail(lines))
    ELSE ApiYield(Tail(lines))

\* chunk.substring(7)
ApiTokenText(y) == Substring(y, Len(PFX_TOKEN_SP))

\* sendMessage: the body of its for await loop, for one yielded line
ApiLine(acc, y) ==
    IF StartsWith(y, PFX_TOKEN_SP) THEN
        [acc EXCEPT !.fullResponse = @ \o ApiTokenText(y),
                    !.events = Append(@, Token(ApiTokenText(y)))]
    ELSE acc

RECURSIVE ApiLines(_, _)
ApiLines(acc, ys) ==
    IF ys = <<>> THEN acc ELSE ApiLines(ApiLine(acc, Head(ys)), Tail(ys))

\* one chunk through streamMessage and on to sendMessage
ApiChunk(acc, chunk) == ApiLines(acc, ApiYield(Split(chunk)))

\* handleSubmit's finally: setLoading(false)
PanelFinally_Keep(ld) == ld

PanelFinally(ld) == FALSE

\* streamMessage's finally: reader.releaseLock()
ApiFinally_None(call) == call

ApiFinally(call) == [call EXCEPT !.released = @ + 1]

\* handleSubmit, up to its await sendMessage or saveMemory.  The submit button
\* is disabled while loading or while the input is blank, and a form whose
\* submit button is disabled is not submitted.
PanelHandleSubmit ==
    /\ transport = "panel"
    /\ Len(calls) < MaxCalls
    /\ ~loading
    /\ Trim(input) # <<>>
    /\ messages' = Append(messages, [role |-> "user", content |-> input])
    /\ loading' = TRUE
    /\ input' = <<>>
    /\ calls' = Append(calls, [NewCall(input, Id(0, FALSE)) EXCEPT !.mode = mode])
    /\ UNCHANGED <<mode, transport, clock, brainState, delivered, wsData, socket, health,
                   silent>>

\* handleSubmit's catch and finally; call is the invocation as the throwing
\* callee left it
PanelCatch(s, call) ==
    /\ messages' = Append(messages, [role |-> "assistant", content |-> STR_ErrorProcessing])
    /\ loading' = PanelFinally(loading)
    /\ calls' = [calls EXCEPT ![s] = [call EXCEPT !.pc = "failed"]]
    /\ UNCHANGED <<mode, transport, clock, input, brainState, delivered, wsData, socket,
                   health, silent>>

\* fetch resolves ok with a body: the first reader.read() is awaited
ApiFetchResolve ==
    \E s \in DOMAIN calls :
        /\ transport = "panel"
        /\ calls[s].mode = "query"
        /\ calls[s].pc = "fetch"
        /\ ~silent
        /\ \E st \in Bodies :
            calls' = [calls EXCEPT ![s].pc = "read", ![s].body = st, ![s].stream = st,
                                   ![s].reader = TRUE]
        /\ UNCHANGED <<mode, transport, clock, input, messages, brainState, loading,
                       delivered, wsData, socket, health, silent>>

\* fetch rejects, the response is not ok, or it has no body: streamMessage throws
ApiFetchFail ==
    \E s \in DOMAIN calls :
        /\ transport = "panel"
        /\ calls[s].mode = "query"
        /\ calls[s].pc = "fetch"
        /\ ~silent
        /\ PanelCatch(s, calls[s])

\* reader.read() resolves with a chunk
ApiReadChunk ==
    \E s \in DOMAIN calls :
        /\ transport = "panel"
        /\ calls[s].pc = "read"
        /\ ~silent
        /\ \E n \in 1..Len(calls[s].stream) :
            LET chunk == Concat(SubSeq(calls[s].stream, 1, n))
                acc == ApiChunk([fullResponse |-> calls[s].fullResponse,
                                 events |-> calls[s].events], chunk)
            IN  calls' = [calls EXCEPT ![s].fullResponse = acc.fullResponse,
                                       ![s].events = acc.events,
                                       ![s].chunks = Append(@, chunk),
                                       ![s].stream = SubSeq(@, n + 1, Len(@))]
        /\ UNCHANGED <<mode, transport, clock, input, messages, brainState, loading,
                       delivered, wsData, socket, health, silent>>

ApiReadDone_NoMessage ==
    \E s \in DOMAIN calls :
        /\ transport = "panel"
        /\ calls[s].pc = "read"
        /\ ~silent
        /\ calls[s].stream = <<>>
        /\ loading' = PanelFinally(loading)
        /\ calls' = [calls EXCEPT ![s] = [ApiFinally(@) EXCEPT !.pc = "done"]]
        /\ UNCHANGED <<mode, transport, clock, input, messages, brainState, delivered,
                       wsData, socket, health, silent>>

\* reader.read() resolves with done: streamMessage's finally runs and
\* sendMessage returns { answer: fullResponse }
ApiReadDone ==
    \E s \in DOMAIN calls :
        /\ transport = "panel"
        /\ calls[s].pc = "read"
        /\ ~silent
        /\ calls[s].stream = <<>>
        /\ messages' = Append(messages, [role |-> "assistant", content |-> calls[s].fullResponse])
        /\ loading' = PanelFinally(loading)
        /\ calls' = [calls EXCEPT ![s] = [ApiFinally(@) EXCEPT !.pc = "done"]]
        /\ UNCHANGED <<mode, transport, clock, input, brainState, delivered, wsData, socket,
                       health, silent>>

\* reader.read() rejects: streamMessage's finally runs and the error reaches
\* handleSubmit's catch
ApiReadFail ==
    \E s \in DOMAIN calls :
        /\ transport = "panel"
        /\ calls[s].pc = "read"
        /\ ~silent
        /\ PanelCatch(s, ApiFinally(calls[s]))

NextPanel ==
    \/ PanelHandleSubmit
    \/ ApiFetchResolve
    \/ ApiFetchFail
    \/ ApiReadChunk
    \/ ApiReadDone
    \/ ApiReadFail

\* the mode buttons: onClick={() => setMode("query")}, setMode("insert")
SetMode ==
    /\ transport = "panel"
    /\ Len(calls) < MaxCalls
    /\ \E m \in {"query", "insert"} :
        /\ m # mode
        /\ mode' = m
    /\ UNCHANGED <<transport, clock, input, messages, brainState, loading, calls,
                   delivered, wsData, socket, health, silent>>

\* Number.prototype.toString of a length
Digits == <<"0", "1", "2", "3", "4", "5", "6", "7", "8", "9">>

RECURSIVE NumberToString(_)
NumberToString(n) ==
    IF n < 10 THEN <<Digits[n + 1]>>
    ELSE NumberToString(n \div 10) \o <<Digits[(n % 10) + 1]>>

\* `Saved! Extracted ${data.nodes.length} entities.`
SavedText(n) == STR_SavedExtracted \o NumberToString(n) \o STR_entities

\* What /ingest/web may answer: a JSON object with or without a nodes array;
\* n is the array's length.
SaveData == {[has |-> FALSE, n |-> 0]} \cup {[has |-> TRUE, n |-> k] : k \in {0, 2, 12}}

\* saveMemory: return { nodes: [], ...data }, then data.nodes.length
NodesLength(data) == IF data.has THEN data.n ELSE 0

\* saveMemory: fetch resolves ok, response.json() is awaited
SaveFetchResolve ==
    \E s \in DOMAIN calls :
        /\ transport = "panel"
        /\ calls[s].mode = "insert"
        /\ calls[s].pc = "fetch"
        /\ ~silent
        /\ calls' = [calls EXCEPT ![s].pc = "json"]
        /\ UNCHANGED <<mode, transport, clock, input, messages, brainState, loading,
                       delivered, wsData, socket, health, silent>>

\* response.json() resolves: saveMemory returns and handleSubmit appends the
\* "Saved!" message
SaveJsonResolve ==
    \E s \in DOMAIN calls :
        /\ transport = "panel"
        /\ calls[s].pc = "json"
        /\ ~silent
        /\ \E data \in SaveData :
            messages' = Append(messages, [role |-> "assistant",
                                          content |-> SavedText(NodesLength(data))])
        /\ loading' = PanelFinally(loading)
        /\ calls' = [calls EXCEPT ![s].pc = "done"]
        /\ UNCHANGED <<mode, transport, clock, input, brainState, delivered, wsData, socket,
                       health, silent>>

\* saveMemory throws (fetch rejects, the response is not ok, response.json()
\* rejects) or onInsertSuccess throws
SaveFail ==
    \E s \in DOMAIN calls :
        /\ transport = "panel"
        /\ calls[s].mode = "insert"
        /\ calls[s].pc \in {"fetch", "json"}
        /\ ~silent
        /\ PanelCatch(s, calls[s])

\* ChatInput.handleSubmit as a function of its input state and loading prop:
\* what it passes to onSendMessage and the input state it leaves.
ChatInputSubmit_NoLoading(inp, ld) ==
    IF Trim(inp) = <<>> THEN [sent |-> <<>>, input |-> inp]
    ELSE [sent |-> <<inp>>, input |-> <<>>]

ChatInputSubmit(inp, ld) ==
    IF Trim(inp) = <<>> \/ ld THEN [sent |-> <<>>, input |-> inp]
    ELSE [sent |-> <<inp>>, input |-> <<>>]

\* ChatPanel.handleSendMessage (the onSendMessage prop of ChatInput), up to
\* its await
HandleSendMessage(text) ==
    /\ messages' = Append(messages, [role |-> "user", content |-> text])
    /\ loading' = TRUE
    /\ calls' = Append(calls, [NewCall(text, Id(0, FALSE)) EXCEPT !.mode = mode])

\* ChatInput's form is submitted.  The handler has its own guard, so it is
\* run in every state.
ChatInputHandleSubmit ==
    /\ transport = "panel"
    /\ Len(calls) < MaxCalls
    /\ LET r == ChatInputSubmit(input, loading)
       IN  /\ input' = r.input
           /\ IF r.sent = <<>> THEN UNCHANGED <<messages, loading, calls>>
              ELSE HandleSendMessage(r.sent[1])
    /\ UNCHANGED <<mode, transport, clock, brainState, delivered, wsData, socket, health,
                   silent>>

\* The consumer of streamMessage returns from its for await loop at a yield:
\* the generator's finally runs.  sendMessage never does so.
ApiReturn ==
    \E s \in DOMAIN calls :
        /\ transport = "panel"
        /\ calls[s].pc = "read"
        /\ calls[s].chunks # <<>>
        /\ ApiYield(Split(calls[s].chunks[Len(calls[s].chunks)])) # <<>>
        /\ calls' = [calls EXCEPT ![s] = [ApiFinally(@) EXCEPT !.pc = "returned"]]
        /\ UNCHANGED <<mode, transport, clock, input, messages, brainState, loading,
                       delivered, wsData, socket, health, silent>>

---------------------------------------------------------------------------
(* app/page.tsx: the health poll of the pull component *)

\* What GET /health may come to: a database field, or a failed fetch
HealthOutcomes == {"DB_CONNECTED", "DB_DOWN", "throw"}

\* setHealth(data.database === "DB_CONNECTED" ? "online" : "offline"), and
\* setHealth("offline") in the catch block
HealthOf(outcome) == IF outcome = "DB_CONNECTED" THEN "online" ELSE "offline"

\* A poll whose catch block also reports the failure as the session's error
HealthBrainState_ErrorOnThrow(outcome, prev) ==
    IF outcome = "throw" THEN STR_Error ELSE prev

\* brainState after checkHealth settles: the poll has no setBrainState
HealthBrainState(outcome, prev) == prev

\* checkHealth, run at mount and by setInterval every 30 s
CheckHealth ==
    /\ transport = "pull"
    /\ \E o \in HealthOutcomes :
        /\ health' = HealthOf(o)
        /\ brainState' = HealthBrainState(o, brainState)
    /\ UNCHANGED <<mode, transport, clock, input, messages, loading, calls, delivered,
                   wsData, socket, silent>>

---------------------------------------------------------------------------
(* The network *)

\* From here on no fetch settles, no read resolves and no socket message
\* arrives
GoSilent ==
    /\ ~silent
    /\ silent' = TRUE
    /\ UNCHANGED <<mode, transport, clock, input, messages, brainState, loading, calls,
                   delivered, wsData, socket, health>>

---------------------------------------------------------------------------

Init ==
    /\ transport \in {"pull", "push", "panel"}
    /\ clock = 0
    /\ input = <<>>
    /\ messages = <<>>
    /\ brainState = STR_Idle
    /\ loading = FALSE
    /\ mode = IF transport = "panel" THEN "query" ELSE "none"
    /\ calls = <<>>
    /\ delivered = 0
    /\ wsData = <<>>
    /\ socket = IF transport = "push" THEN MountSocket ELSE NoSocket
    /\ health = IF transport = "pull" THEN "checking" ELSE "none"
    /\ silent = FALSE

Next == SetInput \/ NextPull \/ NextPush \/ NextPanel

Spec == Init /\ [][Next]_vars

\* One invocation of the pull component or of the panel at its first read,
\* the server having answered "hi" with any body of whole lines
InitLine ==
    /\ transport \in {"pull", "panel"}
    /\ clock = 0
    /\ input = <<>>
    /\ messages = IF transport = "pull"
                  THEN <<[id |-> Id(0, FALSE), sender |-> "user", text |-> <<"h", "i">>],
                         [id |-> Id(0, TRUE), sender |-> "ai", text |-> <<>>]>>
                  ELSE <<[role |-> "user", content |-> <<"h", "i">>]>>
    /\ brainState = IF transport = "pull" THEN STR_ThinkingDots ELSE STR_Idle
    /\ loading = (transport = "panel")
    /\ mode = IF transport = "panel" THEN "query" ELSE "none"
    /\ \E st \in LineBodies :
        calls = <<[NewCall(<<"h", "i">>, Id(0, transport = "pull"))
                      EXCEPT !.pc = "read", !.body = st, !.stream = st]>>
    /\ delivered = 0
    /\ wsData = <<>>
    /\ socket = NoSocket
    /\ health = IF transport = "pull" THEN "checking" ELSE "none"
    /\ silent = FALSE

NextLine ==
    \/ PullReadChunk
    \/ PullReadDone
    \/ PullReadFail
    \/ ApiReadChunk
    \/ ApiReadDone
    \/ ApiReadFail

SpecLine == InitLine /\ [][NextLine]_vars

\* One component alone, just mounted
InitPull == Init /\ transport = "pull"
InitPush == Init /\ transport = "push"

\* The push component from mount to unmount
NextSocket == SetInput \/ NextPush \/ Unmount

SpecSocket == InitPush /\ [][NextSocket]_vars

\* The pull component with its health poll
NextHealth == SetInput \/ NextPull \/ CheckHealth

SpecHealth == InitPull /\ [][NextHealth]_vars

\* The pull component on a network that may stop delivering
NextSilent == SetInput \/ NextPull \/ GoSilent

SpecSilent == InitPull /\ [][NextSilent]_vars

\* ChatPanel in both its forms (its own form, or ChatInput), both modes
InitPanel == Init /\ transport = "panel"

NextPanelModes ==
    \/ SetInput
    \/ SetMode
    \/ NextPanel
    \/ ChatInputHandleSubmit
    \/ SaveFetchResolve
    \/ SaveJsonResolve
    \/ SaveFail

SpecPanel == InitPanel /\ [][NextPanelModes]_vars

\* streamMessage under a consumer that may return early
NextReader == NextPanelModes \/ ApiReturn

SpecReader == InitPanel /\ [][NextReader]_vars


---------------------------------------------------------------------------
(* Definitions the properties below are stated with *)

T_looking == <<"l", "o", "o", "k", "i", "n", "g">>
T_Hello == <<"H", "e", "l", "l", "o">>
T_spWorld == <<" ", "W", "o", "r", "l", "d">>
T_analyzing == <<"a", "n", "a", "l", "y", "z", "i", "n", "g">>

\* the events the mounted component's code classifies when text arrives as
\* a single chunk
UnsplitEvents(text) ==
    IF transport = "panel"
    THEN ApiChunk([fullResponse |-> <<>>, events |-> <<>>], text).events
    ELSE PullChunk([brainState |-> <<>>, messages |-> <<>>, fullResponse |-> <<>>,
                    events |-> <<>>], text, Id(0, TRUE)).events

\* the texts of the Token events among evs, concatenated in order
RECURSIVE TokenTexts(_)
TokenTexts(evs) ==
    IF evs = <<>> THEN <<>>
    ELSE (IF Head(evs).type = "Token" THEN Head(evs).payload ELSE <<>>)
         \o TokenTexts(Tail(evs))

\* what follows "TOKEN:" in each line that starts with it, character for
\* character, concatenated in order
RECURSIVE VerbatimTokens(_)
VerbatimTokens(lines) ==
    IF lines = <<>> THEN <<>>
    ELSE (IF StartsWith(Head(lines), PFX_TOKEN)
          THEN Substring(Head(lines), Len(PFX_TOKEN)) ELSE <<>>)
         \o VerbatimTokens(Tail(lines))

\* every chunk read ends right after a line terminator
LineAligned(chunks) ==
    \A i \in DOMAIN chunks : chunks[i] # <<>> /\ chunks[i][Len(chunks[i])] = "\n"

\* the text of an entry of the message list, whichever component made it
MsgText(m) == IF "text" \in DOMAIN m THEN m.text ELSE m.content

IsPrefix(a, b) == Len(a) <= Len(b) /\ SubSeq(b, 1, Len(a)) = a

\* the texts shown in the entries of the message list that carry the id
Shown(id) == {messages[i].text : i \in {j \in DOMAIN messages : messages[j].id = id}}

\* no other invocation's placeholder carries the id of s's placeholder
OwnPlaceholder(s) ==
    \A r \in DOMAIN calls : r # s => calls[r].aiMsgId # calls[s].aiMsgId

\* brainState read as a session state: "Idle" is shown before a session and
\* after its clean end, "Responding..." while tokens arrive, "Error" after a
\* failure; every other text is a thinking label.
IsThinkingState(b) == b \notin {STR_Idle, STR_RespondingDots, STR_Error}

TableEdge(a, b) ==
    \/ a = STR_Idle /\ IsThinkingState(b)
    \/ IsThinkingState(a) /\ IsThinkingState(b)
    \/ IsThinkingState(a) /\ b = STR_RespondingDots
    \/ a = STR_RespondingDots /\ b = STR_RespondingDots
    \/ b = STR_Idle
    \/ b = STR_Error

\* invocation s fails in this step
Fails(s) == calls[s].pc # "failed" /\ calls'[s].pc = "failed"

---------------------------------------------------------------------------
(* Properties *)

\* C1: frame-boundary independence.  When a pull session has read a whole
\* well-formed body, however the reads cut it into chunks, the events it
\* classified are those of the same body delivered as one chunk.
C1_FrameBoundaryIndependence ==
    \A s \in DOMAIN calls :
        (transport \in {"pull", "panel"} /\ calls[s].pc = "done")
            => calls[s].events = UnsplitEvents(Concat(calls[s].chunks))

\* C2: Scenario A.  The chunks "THINK", "ING: loo", "king\nTOKEN: Hel",
\* "lo\nTOKEN: World\n" read in that order give exactly the events
\* Thinking("looking"), Token("Hello"), Token(" World").
C2_ScenarioA ==
    \A s \in DOMAIN calls :
        (transport \in {"pull", "panel"} /\ calls[s].pc = "done"
            /\ calls[s].chunks = <<A1, A2, A3, A4>>)
            => calls[s].events = <<Thinking(T_looking), Token(T_Hello), Token(T_spWorld)>>

\* C3: in a run with a single session, every change of the session state
\* that does not start the session and does not leave the error state is an
\* edge of the transition table; in particular the state never goes from
\* Responding back to Thinking.
C3_TransitionTable ==
    [][(Len(calls') = Len(calls) /\ Len(calls) <= 1
            /\ brainState # STR_Error /\ brainState' # brainState)
          => TableEdge(brainState, brainState')]_vars

\* C4: terminal idempotence.  An event delivered after the session reached
\* ErrorState changes neither the session state nor the text shown, and an
\* invocation that has ended takes no further step.
C4_TerminalIdempotence ==
    [][/\ (brainState = STR_Error /\ delivered' # delivered)
            => (brainState' = brainState /\ messages' = messages)
       /\ \A s \in DOMAIN calls :
            calls[s].pc \in {"done", "failed"} => calls'[s] = calls[s]]_vars

\* C5: at most one session is in flight at any time.
C5_SingleInFlight == Cardinality(InFlight) <= 1

\* C6: when every chunk read ends at a line end, the response text is the
\* concatenation of what follows "TOKEN:" in each such line, with its
\* leading and trailing white space.
C6_TokenVerbatim ==
    \A s \in DOMAIN calls :
        (transport \in {"pull", "panel"} /\ calls[s].pc \in {"read", "done"}
            /\ LineAligned(calls[s].chunks))
            => calls[s].fullResponse = VerbatimTokens(Split(Concat(calls[s].chunks)))

\* C7: the accumulated text of a session is the concatenation, in arrival
\* order, of the texts of the Token events it has received, and it is the
\* text shown in the session's placeholder; Thinking("analyzing") then
\* Token("Paris") accumulates "Paris".
C7_TextIsConcatOfTokens ==
    \A s \in DOMAIN calls :
        /\ transport \in {"pull", "panel"}
            => calls[s].fullResponse = TokenTexts(calls[s].events)
        /\ (transport = "pull" /\ OwnPlaceholder(s))
            => Shown(calls[s].aiMsgId) = {calls[s].fullResponse}
        /\ (transport = "pull"
                /\ calls[s].events = <<Thinking(T_analyzing), Token(T_Paris)>>)
            => calls[s].fullResponse = T_Paris

C7_Witness ==
    \E s \in DOMAIN calls :
        /\ transport = "pull" /\ calls[s].pc = "done" /\ brainState = STR_Idle
        /\ calls[s].events = <<Thinking(T_analyzing), Token(T_Paris)>>
        /\ calls[s].fullResponse = T_Paris
        /\ Shown(calls[s].aiMsgId) = {T_Paris}

\* C8: when the read loop sees the clean end of the body, the session state
\* becomes the success state "Idle", never "Error", and the text accumulated
\* so far is kept as the final text.
C8_CleanEofIsSuccess ==
    [][\A s \in DOMAIN calls :
          (calls[s].pc = "read" /\ calls'[s].pc = "done")
            => /\ calls'[s].fullResponse = calls[s].fullResponse
               /\ (transport = "pull" => (brainState' = STR_Idle /\ messages' = messages))
               /\ (transport = "panel" =>
                     messages' = Append(messages,
                         [role |-> "assistant", content |-> calls[s].fullResponse]))]_vars

C8_Witness ==
    \E s \in DOMAIN calls :
        /\ transport = "pull" /\ calls[s].pc = "done" /\ brainState = STR_Idle
        /\ calls[s].fullResponse # <<>>
        /\ Shown(calls[s].aiMsgId) = {calls[s].fullResponse}

\* C9: when a submission's request or a read of its response fails, the
\* session state becomes "Error" and the last message shown is an assistant
\* message, on the pull and on the push transport.
C9_TransportFailureIsError ==
    [][\A s \in DOMAIN calls :
          (transport \in {"pull", "push"} /\ Fails(s))
            => /\ brainState' = STR_Error
               /\ messages'[Len(messages')].sender = "ai"]_vars

\* C10: an error never changes the accumulated text.  When a submission
\* fails after tokens were accumulated, every message shown before is shown
\* unchanged and in place afterwards, the accumulated text is unchanged and
\* is still the text of a message shown; an ERROR message on the socket sets
\* the state to "Error" and changes no message shown before.
C10_ErrorKeepsText ==
    [][/\ \A s \in DOMAIN calls :
            (transport \in {"pull", "panel"} /\ Fails(s))
                => /\ IsPrefix(messages, messages')
                   /\ calls'[s].fullResponse = calls[s].fullResponse
                   /\ calls[s].fullResponse # <<>> =>
                        \E i \in DOMAIN messages' :
                            MsgText(messages'[i]) = calls[s].fullResponse
       /\ (delivered' # delivered /\ brainState' = STR_Error)
            => IsPrefix(messages, messages')]_vars

\* C11: the push classification.  When ws.onmessage handles a message, status
\* "THINKING" sets the state to "Thinking..." and leaves the messages alone;
\* "DONE" sets the state to "Idle" (Done) and, when the message carries a
\* non-empty response, the assistant text shown is a new message with
\* exactly that response, otherwise the messages are unchanged; "ERROR" sets
\* the state to "Error" and shows "Error: " followed by message.message.
C11_PushClassification ==
    [][delivered' # delivered =>
        LET data == wsData'[1]
            last == messages'[Len(messages')]
            appended == Len(messages') = Len(messages) + 1 /\ IsPrefix(messages, messages')
        IN  /\ (data.json /\ data.status = "THINKING")
                => brainState' = STR_ThinkingDots /\ messages' = messages
            /\ (data.json /\ data.status = "DONE")
                => /\ brainState' = STR_Idle
                   /\ IF data.hasResponse /\ data.response # <<>>
                      THEN appended /\ last.sender = "ai" /\ last.text = data.response
                      ELSE messages' = messages
            /\ (data.json /\ data.status = "ERROR")
                => /\ brainState' = STR_Error
                   /\ appended /\ last.sender = "ai"
                   /\ data.hasMessage => last.text = STR_ErrorColon \o data.message]_vars

\* a DONE message with a response was handled after a THINKING one
C11_Witness ==
    /\ transport = "push"
    /\ delivered = 2
    /\ wsData = <<WsData("DONE", FALSE, <<>>, TRUE, T_Paris)>>
    /\ brainState = STR_Idle
    /\ Len(messages) = 1
    /\ messages[1].text = T_Paris

\* a step of the component after which invocation s has ended
Ends(s) == NextSilent /\ calls'[s].pc \in {"done", "failed"}

\* C12: every submitted session reaches a terminal state even when the
\* transport goes silent.  In finite-run form: whenever the network has
\* stopped delivering and an invocation still awaits its fetch or a read,
\* some step of the component (the expiry of a watchdog armed at submission)
\* is enabled that ends the invocation.
C12_SilentSessionCanEnd ==
    \A s \in DOMAIN calls :
        (silent /\ calls[s].pc \in {"fetch", "read"}) => ENABLED Ends(s)

\* C13: disposing the component closes the transport, and a session that is
\* not terminal then is shown as a terminal error ("cancelled"), while a
\* terminal one is left as it is.  At the step that closes the socket: the
\* socket has been closed once; if the state was neither "Idle" nor "Error"
\* it is "Error" afterwards, otherwise state and messages are unchanged.
C13_DisposeCancels ==
    [][(socket.state = "open" /\ socket'.state = "closed") =>
        /\ socket'.closed = 1
        /\ IF brainState \in {STR_Idle, STR_Error}
           THEN brainState' = brainState /\ messages' = messages
           ELSE brainState' = STR_Error]_vars

\* C14: a health poll changes only the online/offline flag.  Whatever the
\* poll came to and whatever the sessions are doing, a step that changes
\* health leaves brainState, the messages, the input and every invocation as
\* they were, and a step that changes any of these leaves health alone.
C14_HealthIsolation ==
    [][health' # health =>
        /\ brainState' = brainState
        /\ messages' = messages
        /\ input' = input
        /\ calls' = calls]_vars

\* a poll has found the database down while a response is being read
C14_Witness ==
    /\ health = "offline"
    /\ brainState = STR_RespondingDots
    /\ \E s \in DOMAIN calls : calls[s].pc = "read" /\ calls[s].fullResponse # <<>>

\* C15: each submission issues exactly one outbound request, which carries
\* the user input, and nothing is retried.  A step that starts an invocation
\* starts one, whose only request carries the input as it was typed; no step
\* adds a request to an invocation, not even one that fails.
C15_OneRequestPerSubmission ==
    [][/\ \A s \in DOMAIN calls : calls'[s].requests = calls[s].requests
       /\ Len(calls') # Len(calls) =>
            /\ Len(calls') = Len(calls) + 1
            /\ calls'[Len(calls')].requests = <<input>>]_vars

\* an invocation has failed, and a later one has been started
C15_Witness ==
    /\ Len(calls) = 2
    /\ calls[1].pc = "failed"
    /\ calls[1].requests = <<calls[1].text>>
    /\ calls[2].pc = "fetch"

\* C16: the push component holds exactly one socket for its lifetime.  At
\* every step, before and after it, one socket has been opened (at mount),
\* it has been closed once if the component is unmounted and never
\* otherwise, and nothing has been sent over it; a step that starts a
\* submission leaves the socket as it is.
C16_OneSocket ==
    [][/\ \A sock \in {socket, socket'} :
            /\ sock.opened = 1
            /\ sock.closed = IF sock.state = "closed" THEN 1 ELSE 0
            /\ sock.sent = <<>>
       /\ Len(calls') # Len(calls) => socket' = socket]_vars

\* the component was unmounted after a submission and a socket message
C16_Witness ==
    /\ socket.state = "closed"
    /\ socket.closed = 1
    /\ Len(calls) >= 1
    /\ delivered >= 1

\* C17: the assistant text is either appended to or set whole, never both.
\* In the pull component the text of every assistant message shown before a
\* step is a prefix of its text after the step; in the push component a
\* step only appends whole messages, leaving those shown as they are, and no
\* invocation ever records a Token event.
C17_AppendOrReplace ==
    [][/\ transport = "pull" =>
            \A i \in DOMAIN messages :
                messages[i].sender = "ai"
                    => IsPrefix(messages[i].text, messages'[i].text)
       /\ transport = "push" =>
            /\ IsPrefix(messages, messages')
            /\ \A s \in DOMAIN calls' : calls'[s].events = <<>>]_vars

\* a frame the classifier has no rule for: blank, or without a known prefix
Discarded(line) == ~StartsWith(line, PFX_THINKING) /\ ~StartsWith(line, PFX_TOKEN)

Kept(lines) == SelectSeq(lines, LAMBDA l : ~Discarded(l))

\* C18: a frame that is blank or starts with neither "THINKING:" nor
\* "TOKEN:" is discarded.  A read leaves the invocation reading and has the
\* effect it would have had without such frames in its chunk: they yield no
\* event, change neither state nor text (nothing at all changes when the
\* chunk holds no other frame) and the frames after them are processed.
C18_UnknownFrameDiscarded ==
    [][\A s \in DOMAIN calls :
        Len(calls'[s].chunks) > Len(calls[s].chunks) =>
            LET chunk == calls'[s].chunks[Len(calls'[s].chunks)]
                kept == Kept(Split(chunk))
                pull == PullLines([brainState |-> brainState, messages |-> messages,
                                   fullResponse |-> calls[s].fullResponse,
                                   events |-> calls[s].events],
                                  kept, calls[s].aiMsgId)
                api == ApiLines([fullResponse |-> calls[s].fullResponse,
                                 events |-> calls[s].events], ApiYield(kept))
            IN  /\ calls'[s].pc = "read"
                /\ transport = "pull" =>
                    /\ brainState' = pull.brainState
                    /\ messages' = pull.messages
                    /\ calls'[s].fullResponse = pull.fullResponse
                    /\ calls'[s].events = pull.events
                /\ transport = "panel" =>
                    /\ messages' = messages
                    /\ calls'[s].fullResponse = api.fullResponse
                    /\ calls'[s].events = api.events]_vars

\* C19: a Token without text received in Thinking still moves the session to
\* Responding.  When the pull component reads the chunk "TOKEN:\n" while
\* brainState is a Thinking state, brainState becomes "Responding...", a
\* Token event with empty text is recorded, and the accumulated text and the
\* messages shown are what they were.
C19_EmptyTokenResponds ==
    [][\A s \in DOMAIN calls :
        (/\ transport = "pull"
         /\ Len(calls'[s].chunks) > Len(calls[s].chunks)
         /\ calls'[s].chunks[Len(calls'[s].chunks)] = C3a
         /\ IsThinkingState(brainState))
            => /\ brainState' = STR_RespondingDots
               /\ calls'[s].events = Append(calls[s].events, Token(<<>>))
               /\ Len(calls'[s].fullResponse) = Len(calls[s].fullResponse)
               /\ messages' = messages]_vars

\* the empty token came after a token and a THINKING frame, read one by one
C19_Witness ==
    /\ transport = "pull"
    /\ calls[1].chunks = <<D1, C2a, C3a>>
    /\ brainState = STR_RespondingDots
    /\ calls[1].fullResponse = <<" ", "b", " ">>
    /\ Shown(calls[1].aiMsgId) = {<<" ", "b", " ">>}

\* a socket message that is no JSON, or whose status is missing or unknown
Malformed(data) == ~data.json \/ data.status \notin {"THINKING", "DONE", "ERROR"}

\* C20: a malformed socket message is dropped without effect.  The step
\* that handles one leaves brainState, the messages, the input, the
\* invocations and the socket as they were, and the well-formed message
\* handled right after a malformed one still sets the state its status
\* stands for.
C20_MalformedDropped ==
    [][delivered' # delivered =>
        LET data == wsData'[1] IN
        /\ Malformed(data) =>
            /\ brainState' = brainState
            /\ messages' = messages
            /\ input' = input
            /\ calls' = calls
            /\ socket' = socket
        /\ (wsData # <<>> /\ Malformed(wsData[1]) /\ ~Malformed(data)) =>
            brainState' = CASE data.status = "THINKING" -> STR_ThinkingDots
                            [] data.status = "DONE" -> STR_Idle
                            [] data.status = "ERROR" -> STR_Error]_vars

\* a text that is no JSON arrived while the state was "Thinking..."
C20_Witness ==
    /\ delivered = 2
    /\ ~wsData[1].json
    /\ brainState = STR_ThinkingDots
    /\ messages = <<>>
    /\ socket.state = "open"

\* C21: ChatInput forwards a submission only with loading false and a
\* non-blank input; an accepted submit starts exactly one invocation, with the
\* input's text, and clears the input; a rejected submit leaves the input as
\* it is.
C21_ChatInputForwardsOnlyWhenReady ==
    [][transport = "panel" =>
        /\ Len(calls') > Len(calls) =>
            /\ ~loading
            /\ Trim(input) # <<>>
            /\ Len(calls') = Len(calls) + 1
            /\ calls'[Len(calls')].text = input
            /\ calls'[Len(calls')].requests = <<input>>
            /\ input' = <<>>
        /\ ChatInputSubmit(input, loading).sent = <<>> =>
            ChatInputSubmit(input, loading).input = input]_vars

\* a submission was forwarded and is in flight, and the user has typed again:
\* a submit is now rejected
C21_Witness ==
    /\ transport = "panel"
    /\ Len(calls) = 1
    /\ calls[1].text = <<"h", "i">>
    /\ loading
    /\ Trim(input) # <<>>
    /\ ChatInputSubmit(input, loading).sent = <<>>

\* the "Saved!" texts saveMemory's answers can produce
SavedTexts == {SavedText(NodesLength(data)) : data \in SaveData}

\* the assistant message a settled ChatPanel invocation has to have appended
IsReplyOf(msg, call) ==
    /\ msg.role = "assistant"
    /\ IF call.pc = "failed" THEN msg.content = STR_ErrorProcessing
       ELSE IF call.mode = "query" THEN msg.content = call.fullResponse
       ELSE msg.content \in SavedTexts

Settled == {s \in DOMAIN calls : calls[s].pc \in {"done", "failed"}}

\* C22: in ChatPanel the message list is, submission by submission, the user
\* message followed, once the request has settled, by exactly one assistant
\* message: the answer or "Saved!" text on success, the fixed error text on
\* failure.
C22_OneReplyPerSubmission ==
    transport = "panel" =>
        /\ Len(messages) = Len(calls) + Cardinality(Settled)
        /\ \A s \in DOMAIN calls :
            /\ 2 * s - 1 <= Len(messages)
            /\ messages[2 * s - 1] = [role |-> "user", content |-> calls[s].text]
            /\ s \in Settled =>
                /\ 2 * s <= Len(messages)
                /\ IsReplyOf(messages[2 * s], calls[s])
            /\ s \notin Settled => Len(messages) = 2 * s - 1

\* an insert that saved twelve entities, then a query that failed
C22_Witness ==
    /\ transport = "panel"
    /\ Len(calls) = 2
    /\ calls[1].mode = "insert"
    /\ calls[1].pc = "done"
    /\ calls[2].mode = "query"
    /\ calls[2].pc = "failed"
    /\ Len(messages) = 4
    /\ messages[2].content = SavedText(12)
    /\ messages[4].content = STR_ErrorProcessing

\* C23: in ChatPanel loading is true exactly while a request is in flight:
\* true from the submission on, false again after success and after failure,
\* and at most one request is in flight.
C23_LoadingIffInFlight ==
    transport = "panel" =>
        /\ loading <=> InFlight # {}
        /\ Cardinality(InFlight) <= 1

\* loading was reset by a failure and set again by the next submission, whose
\* saveMemory request is in flight
C23_Witness ==
    /\ transport = "panel"
    /\ Len(calls) = 2
    /\ calls[1].pc = "failed"
    /\ calls[2].pc = "json"
    /\ loading

\* C24: streamMessage releases the reader's lock exactly once on every way
\* out of its read loop (end of stream, failed read, the consumer returning
\* early), not before, and never when it threw before it had a reader.
C24_LockReleasedOnce ==
    transport = "panel" =>
        \A s \in DOMAIN calls :
            /\ ~calls[s].reader => calls[s].released = 0
            /\ calls[s].reader /\ calls[s].pc = "read" => calls[s].released = 0
            /\ calls[s].reader /\ calls[s].pc \in {"done", "failed", "returned"} =>
                calls[s].released = 1

\* one stream ended by a failed read, the next abandoned by its consumer
C24_Witness ==
    /\ transport = "panel"
    /\ Len(calls) = 2
    /\ calls[1].pc = "failed"
    /\ calls[1].reader
    /\ calls[1].released = 1
    /\ calls[2].pc = "returned"
    /\ calls[2].released = 1

\* C25: the entries of the message list of the pull and of the push component
\* have pairwise distinct ids.
C25_DistinctIds ==
    transport \in {"pull", "push"} =>
        \A i, j \in DOMAIN messages :
            i # j => messages[i].id # messages[j].id

\* C26: when every chunk read so far ends right after a line terminator, the
\* events classified chunk by chunk are those of the same text taken as one
\* chunk: the empty fragment after a chunk's last terminator yields nothing,
\* and no line is dropped, duplicated or reordered.
C26_AlignedChunksSplitAsWhole ==
    \A s \in DOMAIN calls :
        (/\ transport \in {"pull", "panel"}
         /\ calls[s].chunks # <<>>
         /\ LineAligned(calls[s].chunks))
            => calls[s].events = UnsplitEvents(Concat(calls[s].chunks))

\* three chunks of whole lines read one by one, the second with a blank line
C26_Witness ==
    /\ transport = "pull"
    /\ calls[1].chunks = <<D1, D2, C2a>>
    /\ LineAligned(calls[1].chunks)
    /\ Len(calls[1].events) >= 2
    /\ calls[1].pc = "done"

===========================================================================
